---- MODULE Spec2Model ----
(***************************************************************************)
(* Model of cbor2/stream.py: the streaming CBOR writer.                    *)
(*                                                                         *)
(* Writer 0 is the top-level CBORWriter.  Every successful array()/map()   *)
(* call creates one context manager together with its CBORArrayWriter or   *)
(* CBORMapWriter; both share the index i >= 1 of the sequence cms.         *)
(* The sink is the sequence of bytes the encoder has written to fp.        *)
(***************************************************************************)
EXTENDS Integers, Sequences, FiniteSets

VARIABLES
    sink,       \* bytes written to the encoder's fp, in order
    cms,        \* the context managers created so far (slots + lifecycle)
    capacity,   \* capacity[i]: the ``capacity`` slot of the writer of cms[i]
    commits,    \* history: commits[i] = number of times capacity[i] was decremented
    okcalls,    \* history: okcalls[i] = number of write/array/map calls on writer i that returned
    last,       \* history: the most recent call and its outcome
    sinkBound,  \* the bound on Len(sink) of the specification being checked
    helper      \* the run of the test helper _encode_value: its argument and call stack

vars == <<sink, cms, capacity, commits, okcalls, last, sinkBound, helper>>

(* ------------------------------ bounds -------------------------------- *)
MaxScopes == 2      \* array()/map() calls that return a context manager
MaxSink == 3        \* bytes in the sink
MaxMapSink == 5     \* bytes in the sink when only maps are written (SpecMap)
MaxLen == 2         \* largest definite length requested
MaxContainers == 3  \* containers in a value given to _encode_value (SpecEncode)
MaxDisciplinedSink == 6     \* bytes in the sink under disciplined use (SpecDisciplined)

(* --------------------------- python values ---------------------------- *)
\* A length argument / capacity slot: None, an Integral n, or a
\* non-integral number (n + 0.5).
None == [kind |-> "None", n |-> 0]
Integral(k) == [kind |-> "Integral", n |-> k]
NonIntegral(k) == [kind |-> "Float", n |-> k]

Lengths == {None} \cup {Integral(k) : k \in -1..MaxLen} \cup {NonIntegral(1)}
\* The scalars written as values and as map keys.
Values == {3}
Keys == {1, 2}

\* Exceptions.
NoError == [type |-> "None", msg |-> ""]
LengthError ==
    [type |-> "ValueError",
     msg |-> "Length can be either a positive integral value or None"]
ArrayExceeded ==
    [type |-> "CBORWriterError",
     msg |-> "Exceeded the requested array element count"]
MapExceeded ==
    [type |-> "CBORWriterError",
     msg |-> "Exceeded the requested map element count"]
Insufficient ==
    [type |-> "CBORWriterError",
     msg |-> "Insufficient number of values written out"]
\* An exception raised by the caller's own code inside a with-block.
BodyError == [type |-> "RuntimeError", msg |-> "body failed"]
\* The error the specification asks of a call on a closed writer.
WriterClosed == [type |-> "CBORWriterError", msg |-> "writer is closed"]

ARRAY == 128        \* major tag 0x80
MAP == 160          \* major tag 0xA0

(* ------------------------- primitive encoder -------------------------- *)
\* Small unsigned integers encode as one byte.
Encode(v) == <<v>>
\* Definite-length header for a count below 24: major_tag | length.
EncodeLength(major_tag, length) == <<major_tag + length>>
\* Indefinite-length start marker: major_tag | 31.
EncodeIndefinite(major_tag) == <<major_tag + 31>>
\* The break byte 0xff.
EncodeBreak == <<255>>

(* ------------------- _CBORContainerWriterContextManager --------------- *)
\* __init__: the exception the constructor raises for a length argument.
ContextManagerInit(length) ==
    IF ~(length.kind = "None" \/ length.kind = "Integral")
    THEN LengthError
    ELSE IF length.kind # "None" /\ length.n < 0
         THEN LengthError
         ELSE NoError

\* Mutant of EnterBytes: the two branches exchanged.
EnterBytesSwapped(major_tag, length) ==
    IF length.kind # "None"
    THEN EncodeIndefinite(major_tag)
    ELSE EncodeLength(major_tag, length.n)

\* __enter__: the bytes written for the header.
EnterBytes(major_tag, length) ==
    IF length.kind = "None"
    THEN EncodeIndefinite(major_tag)
    ELSE EncodeLength(major_tag, length.n)

\* Mutant of ExitBytes: the break is written for definite lengths only.
ExitBytesNoBreak(length) ==
    IF length.kind # "None" THEN EncodeBreak ELSE <<>>

\* __exit__: the bytes written when the block is left.
ExitBytes(length) ==
    IF length.kind = "None" THEN EncodeBreak ELSE <<>>

\* Mutant of ExitRaises: one missing element is tolerated.
ExitRaisesOffByOne(length, cap) ==
    IF length.kind = "None"
    THEN NoError
    ELSE IF cap.n > 1 THEN Insufficient ELSE NoError

\* __exit__: the exception it raises, given the writer's capacity.
ExitRaises(length, cap) ==
    IF length.kind = "None"
    THEN NoError
    ELSE IF cap.n > 0 THEN Insufficient ELSE NoError

\* What leaves a with-statement whose body ended with ``body`` and whose
\* __exit__ raised ``exitRaised``: __exit__ returns None, so it suppresses
\* nothing; an exception raised by __exit__ is the one that propagates.
WithOutcome(body, exitRaised) ==
    IF exitRaised # NoError THEN exitRaised ELSE body

(* --------------------------- _commit_element -------------------------- *)
\* Mutant of ArrayCommitElement: the bound is tested with < instead of <=.
ArrayCommitElementOffByOne(cap) ==
    IF cap.kind # "None"
    THEN IF cap.n < 0
         THEN [raised |-> ArrayExceeded, capacity |-> cap, decrements |-> 0]
         ELSE [raised |-> NoError, capacity |-> Integral(cap.n - 1), decrements |-> 1]
    ELSE [raised |-> NoError, capacity |-> cap, decrements |-> 0]

\* CBORArrayWriter._commit_element on a capacity slot: the exception raised,
\* the slot afterwards, and how many times ``capacity -= 1`` ran.
ArrayCommitElement(cap) ==
    IF cap.kind # "None"
    THEN IF cap.n <= 0
         THEN [raised |-> ArrayExceeded, capacity |-> cap, decrements |-> 0]
         ELSE [raised |-> NoError, capacity |-> Integral(cap.n - 1), decrements |-> 1]
    ELSE [raised |-> NoError, capacity |-> cap, decrements |-> 0]

\* Mutant of MapCommitElement: the ``is not None`` test is missing, and
\* ``not None`` is true.
MapCommitElementNoNoneCheck(cap) ==
    IF cap.kind = "None" \/ cap.n = 0
    THEN [raised |-> MapExceeded, capacity |-> cap, decrements |-> 0]
    ELSE [raised |-> NoError, capacity |-> Integral(cap.n - 1), decrements |-> 1]

\* Mutant of MapCommitElement: a pair takes two units, one for the key and
\* one for the value.
MapCommitElementTwoPerPair(cap) ==
    IF cap.kind # "None"
    THEN IF cap.n = 0
         THEN [raised |-> MapExceeded, capacity |-> cap, decrements |-> 0]
         ELSE [raised |-> NoError, capacity |-> Integral(cap.n - 2), decrements |-> 1]
    ELSE [raised |-> NoError, capacity |-> cap, decrements |-> 0]

\* CBORMapWriter._commit_element on a capacity slot.
MapCommitElement(cap) ==
    IF cap.kind # "None"
    THEN IF cap.n = 0
         THEN [raised |-> MapExceeded, capacity |-> cap, decrements |-> 0]
         ELSE [raised |-> NoError, capacity |-> Integral(cap.n - 1), decrements |-> 1]
    ELSE [raised |-> NoError, capacity |-> cap, decrements |-> 0]

(* ------------------------------ state --------------------------------- *)
Scopes == 1..Len(cms)
\* The writers a caller uses: the top-level one, and those of the context
\* managers on which __enter__ or __exit__ has been called.
ArrayWriters == {i \in Scopes : cms[i].major_tag = ARRAY /\ cms[i].st # "Unopened"}
MapWriters == {i \in Scopes : cms[i].major_tag = MAP /\ cms[i].st # "Unopened"}

\* The record of a call: the method, the writer or context manager it was
\* made on, and the exception it raised.  For __exit__, body is the exception
\* the with-body ended with and observed the one leaving the with-statement.
Call(op, w, raised) ==
    [op |-> op, w |-> w, raised |-> raised, body |-> NoError, observed |-> raised]

\* A new context manager with its slots, and two history fields: st tells
\* whether __enter__ or __exit__ was called last on it ("Unopened": neither
\* yet), parent is the writer whose call made it.
NewManager(parent, major_tag, length) ==
    [major_tag |-> major_tag, length |-> length, st |-> "Unopened",
     parent |-> parent]

\* No run of _encode_value: the caller uses the writers directly.
NoHelper == [value |-> [kind |-> "scalar", v |-> 0, items |-> <<>>], stack |-> <<>>]

Init ==
    /\ sink = <<>>
    /\ cms = <<>>
    /\ capacity = <<>>
    /\ commits = <<>>
    /\ okcalls = <<>>
    /\ last = Call("init", 0, NoError)
    /\ sinkBound = MaxSink
    /\ helper = NoHelper

\* The bounds of the model: a call that would outgrow them is not made.
\* A run of _encode_value asks for one context manager per container.
ScopeBound == IF helper = NoHelper THEN MaxScopes ELSE MaxContainers
Fits(bytes, err) ==
    /\ Len(sink) + Len(bytes) <= sinkBound
    /\ err = NoError => Len(cms) < ScopeBound

(* ----------------------------- CBORWriter ----------------------------- *)
\* CBORWriter.write(value)
WriterWrite(value) ==
    /\ Len(sink) + Len(Encode(value)) <= sinkBound
    /\ sink' = sink \o Encode(value)
    /\ last' = Call("write", 0, NoError)
    /\ UNCHANGED <<cms, capacity, commits, okcalls, sinkBound>>

\* Mutant of WriterNested: the header is written by the call itself, before
\* the context manager is returned.
WriterNestedEager(op, major_tag, length) ==
    LET err == ContextManagerInit(length) IN
    /\ Fits(EnterBytes(major_tag, length), err)
    /\ IF err = NoError
       THEN /\ cms' = Append(cms, NewManager(0, major_tag, length))
            /\ capacity' = Append(capacity, length)
            /\ commits' = Append(commits, 0)
            /\ okcalls' = Append(okcalls, 0)
            /\ sink' = sink \o EnterBytes(major_tag, length)
       ELSE UNCHANGED <<sink, cms, capacity, commits, okcalls>>
    /\ last' = Call(op, 0, err)
    /\ UNCHANGED sinkBound

\* _array_context_mgr / _map_context_mgr called from the top-level writer.
WriterNested(op, major_tag, length) ==
    LET err == ContextManagerInit(length) IN
    /\ Fits(<<>>, err)
    /\ IF err = NoError
       THEN /\ cms' = Append(cms, NewManager(0, major_tag, length))
            /\ capacity' = Append(capacity, length)
            /\ commits' = Append(commits, 0)
            /\ okcalls' = Append(okcalls, 0)
       ELSE UNCHANGED <<cms, capacity, commits, okcalls>>
    /\ last' = Call(op, 0, err)
    /\ UNCHANGED <<sink, sinkBound>>

\* CBORWriter.array(length)
WriterArray(length) == WriterNested("array", ARRAY, length)
\* CBORWriter.map(length)
WriterMap(length) == WriterNested("map", MAP, length)

(* --------------------------- CBORArrayWriter -------------------------- *)
\* CBORArrayWriter.write(value)
ArrayWrite(w, value) ==
    LET c == ArrayCommitElement(capacity[w]) IN
    /\ w \in ArrayWriters
    /\ IF c.raised # NoError
       THEN UNCHANGED <<sink, capacity, commits, okcalls>>
       ELSE /\ Len(sink) + Len(Encode(value)) <= sinkBound
            /\ capacity' = [capacity EXCEPT ![w] = c.capacity]
            /\ commits' = [commits EXCEPT ![w] = @ + c.decrements]
            /\ sink' = sink \o Encode(value)
            /\ okcalls' = [okcalls EXCEPT ![w] = @ + 1]
    /\ last' = Call("write", w, c.raised)
    /\ UNCHANGED <<cms, sinkBound>>

\* Mutant of ArrayNested: the length is validated before _commit_element().
ArrayNestedValidatesFirst(w, op, major_tag, length) ==
    LET c == ArrayCommitElement(capacity[w])
        err == ContextManagerInit(length)
    IN
    /\ w \in ArrayWriters
    /\ IF err # NoError
       THEN /\ UNCHANGED <<cms, capacity, commits, okcalls>>
            /\ last' = Call(op, w, err)
       ELSE IF c.raised # NoError
            THEN /\ UNCHANGED <<cms, capacity, commits, okcalls>>
                 /\ last' = Call(op, w, c.raised)
            ELSE /\ Fits(<<>>, err)
                 /\ last' = Call(op, w, err)
                 /\ cms' = Append(cms, NewManager(w, major_tag, length))
                 /\ capacity' = Append([capacity EXCEPT ![w] = c.capacity], length)
                 /\ commits' = Append([commits EXCEPT ![w] = @ + c.decrements], 0)
                 /\ okcalls' = Append([okcalls EXCEPT ![w] = @ + 1], 0)
    /\ UNCHANGED <<sink, sinkBound>>

\* CBORArrayWriter.array / .map: _commit_element(), then the context manager.
ArrayNested(w, op, major_tag, length) ==
    LET c == ArrayCommitElement(capacity[w])
        err == ContextManagerInit(length)
    IN
    /\ w \in ArrayWriters
    /\ IF c.raised # NoError
       THEN /\ UNCHANGED <<cms, capacity, commits, okcalls>>
            /\ last' = Call(op, w, c.raised)
       ELSE /\ Fits(<<>>, err)
            /\ last' = Call(op, w, err)
            /\ IF err = NoError
               THEN /\ cms' = Append(cms, NewManager(w, major_tag, length))
                    /\ capacity' = Append([capacity EXCEPT ![w] = c.capacity], length)
                    /\ commits' = Append([commits EXCEPT ![w] = @ + c.decrements], 0)
                    /\ okcalls' = Append([okcalls EXCEPT ![w] = @ + 1], 0)
               ELSE /\ capacity' = [capacity EXCEPT ![w] = c.capacity]
                    /\ commits' = [commits EXCEPT ![w] = @ + c.decrements]
                    /\ UNCHANGED <<cms, okcalls>>
    /\ UNCHANGED <<sink, sinkBound>>

\* CBORArrayWriter.array(length)
ArrayArray(w, length) == ArrayNested(w, "array", ARRAY, length)
\* CBORArrayWriter.map(length)
ArrayMap(w, length) == ArrayNested(w, "map", MAP, length)

(* ---------------------------- CBORMapWriter --------------------------- *)
\* Mutant of MapWriteBytes: the value is encoded before the key.
MapWriteBytesSwapped(key, value) == Encode(value) \o Encode(key)

\* The bytes CBORMapWriter.write appends for a pair.
MapWriteBytes(key, value) == Encode(key) \o Encode(value)

\* CBORMapWriter.write(key, value)
MapWrite(w, key, value) ==
    LET c == MapCommitElement(capacity[w]) IN
    /\ w \in MapWriters
    /\ IF c.raised # NoError
       THEN UNCHANGED <<sink, capacity, commits, okcalls>>
       ELSE /\ Len(sink) + Len(MapWriteBytes(key, value)) <= sinkBound
            /\ capacity' = [capacity EXCEPT ![w] = c.capacity]
            /\ commits' = [commits EXCEPT ![w] = @ + c.decrements]
            /\ sink' = sink \o MapWriteBytes(key, value)
            /\ okcalls' = [okcalls EXCEPT ![w] = @ + 1]
    /\ last' = Call("write", w, c.raised)
    /\ UNCHANGED <<cms, sinkBound>>

\* CBORMapWriter.array / .map: _commit_element(), encode(key), then the
\* context manager.
MapNested(w, op, major_tag, key, length) ==
    LET c == MapCommitElement(capacity[w])
        err == ContextManagerInit(length)
    IN
    /\ w \in MapWriters
    /\ IF c.raised # NoError
       THEN /\ UNCHANGED <<sink, cms, capacity, commits, okcalls>>
            /\ last' = Call(op, w, c.raised)
       ELSE /\ Fits(Encode(key), err)
            /\ sink' = sink \o Encode(key)
            /\ last' = Call(op, w, err)
            /\ IF err = NoError
               THEN /\ cms' = Append(cms, NewManager(w, major_tag, length))
                    /\ capacity' = Append([capacity EXCEPT ![w] = c.capacity], length)
                    /\ commits' = Append([commits EXCEPT ![w] = @ + c.decrements], 0)
                    /\ okcalls' = Append([okcalls EXCEPT ![w] = @ + 1], 0)
               ELSE /\ capacity' = [capacity EXCEPT ![w] = c.capacity]
                    /\ commits' = [commits EXCEPT ![w] = @ + c.decrements]
                    /\ UNCHANGED <<cms, okcalls>>
    /\ UNCHANGED sinkBound

\* CBORMapWriter.array(key, length)
MapArray(w, key, length) == MapNested(w, "array", ARRAY, key, length)
\* CBORMapWriter.map(key, length)
MapMap(w, key, length) == MapNested(w, "map", MAP, key, length)

(* --------------------------- with-statement --------------------------- *)
\* Mutant of Enter: the unit of the parent is taken when the header is
\* written, on top of the one taken by array()/map().
EnterCommitsParent(s) ==
    /\ s \in Scopes
    /\ Len(sink) + Len(EnterBytes(cms[s].major_tag, cms[s].length)) <= sinkBound
    /\ sink' = sink \o EnterBytes(cms[s].major_tag, cms[s].length)
    /\ cms' = [cms EXCEPT ![s].st = "Open"]
    /\ last' = Call("enter", s, NoError)
    /\ capacity' =
          IF cms[s].parent # 0 /\ capacity[cms[s].parent].kind = "Integral"
             /\ capacity[cms[s].parent].n > 0
          THEN [capacity EXCEPT ![cms[s].parent] = Integral(@.n - 1)]
          ELSE capacity
    /\ UNCHANGED <<commits, okcalls, sinkBound>>

\* cm.__enter__(): write the header, yield the writer.  Nothing in the
\* context manager records that it was entered or left before, so the same
\* one can be entered again.
Enter(s) ==
    /\ s \in Scopes
    /\ Len(sink) + Len(EnterBytes(cms[s].major_tag, cms[s].length)) <= sinkBound
    /\ sink' = sink \o EnterBytes(cms[s].major_tag, cms[s].length)
    /\ cms' = [cms EXCEPT ![s].st = "Open"]
    /\ last' = Call("enter", s, NoError)
    /\ UNCHANGED <<capacity, commits, okcalls, sinkBound>>

\* The exceptions a with-body can end with: none, one of the caller's own,
\* or the one the last call raised.
Bodies == {NoError, BodyError, last.observed}

\* cm.__exit__(...) at the end of the with-block whose body ended with
\* the exception ``body`` (NoError: it completed).  It can be called on a
\* context manager that was never entered, or that was left already.
Exit(s, body) ==
    LET raised == ExitRaises(cms[s].length, capacity[s]) IN
    /\ s \in Scopes
    /\ Len(sink) + Len(ExitBytes(cms[s].length)) <= sinkBound
    /\ sink' = sink \o ExitBytes(cms[s].length)
    /\ cms' = [cms EXCEPT ![s].st = "Closed"]
    /\ last' = [Call("exit", s, raised)
                   EXCEPT !.body = body, !.observed = WithOutcome(body, raised)]
    /\ UNCHANGED <<capacity, commits, okcalls, sinkBound>>

\* One call made directly by the caller: no run of _encode_value is involved.
Direct(call) == call /\ UNCHANGED helper

Next ==
    \/ \E v \in Values : Direct(WriterWrite(v))
    \/ \E l \in Lengths : Direct(WriterArray(l))
    \/ \E l \in Lengths : Direct(WriterMap(l))
    \/ \E w \in Scopes, v \in Values : Direct(ArrayWrite(w, v))
    \/ \E w \in Scopes, l \in Lengths : Direct(ArrayArray(w, l))
    \/ \E w \in Scopes, l \in Lengths : Direct(ArrayMap(w, l))
    \/ \E w \in Scopes, k \in Keys, v \in Values : Direct(MapWrite(w, k, v))
    \/ \E w \in Scopes, k \in Keys, l \in Lengths : Direct(MapArray(w, k, l))
    \/ \E w \in Scopes, k \in Keys, l \in Lengths : Direct(MapMap(w, k, l))
    \/ \E s \in Scopes : Direct(Enter(s))
    \/ \E s \in Scopes, b \in Bodies : Direct(Exit(s, b))

Spec == Init /\ [][Next]_vars

\* The callers that write maps only: one top-level map and what is nested
\* in it through its CBORMapWriter, with room for several pairs in the sink.
InitMap ==
    /\ sink = <<>>
    /\ cms = <<>>
    /\ capacity = <<>>
    /\ commits = <<>>
    /\ okcalls = <<>>
    /\ last = Call("init", 0, NoError)
    /\ sinkBound = MaxMapSink
    /\ helper = NoHelper

NextMap ==
    \/ \E l \in Lengths : cms = <<>> /\ Direct(WriterMap(l))
    \/ \E w \in Scopes, k \in Keys, v \in Values : Direct(MapWrite(w, k, v))
    \/ \E w \in Scopes, k \in Keys, l \in Lengths : Direct(MapArray(w, k, l))
    \/ \E w \in Scopes, k \in Keys, l \in Lengths : Direct(MapMap(w, k, l))
    \/ \E s \in Scopes : Direct(Enter(s))
    \/ \E s \in Scopes, b \in Bodies : Direct(Exit(s, b))

SpecMap == InitMap /\ [][NextMap]_vars

(* ---------------------- test helper _encode_value --------------------- *)
\* The values of the test: a scalar, a tuple (fixed array), a list
\* (indefinite array), a FrozenDict (fixed map) or a dict (indefinite map).
\* items maps the indices 1..n of an array, or the keys of a map, to the
\* children.
Elements == {3, 4}
Scalar(x) == [kind |-> "scalar", v |-> x, items |-> <<>>]
ArrayKinds == {"tuple", "list"}
MapKinds == {"FrozenDict", "dict"}
FixedKinds == {"tuple", "FrozenDict"}

\* sorted(S) for a set of integers.
RECURSIVE Sorted(_)
Sorted(S) ==
    IF S = {} THEN <<>>
    ELSE LET m == CHOOSE x \in S : \A y \in S : x <= y
         IN <<m>> \o Sorted(S \ {m})

\* The values with exactly j containers, and the sequences of n values with
\* j containers in all; a container has at most MaxLen children.
RECURSIVE TreesWith(_), ForestsWith(_, _)
ForestsWith(n, j) ==
    IF n = 0 THEN (IF j = 0 THEN {<<>>} ELSE {})
    ELSE UNION {{<<t>> \o f : t \in TreesWith(i), f \in ForestsWith(n - 1, j - i)} :
                   i \in 0..j}
TreesWith(j) ==
    IF j = 0 THEN {Scalar(x) : x \in Elements}
    ELSE UNION {
           {[kind |-> k, v |-> 0, items |-> f] : k \in ArrayKinds}
           \cup {[kind |-> k, v |-> 0, items |-> [x \in K |-> f[Len(Sorted({y \in K : y <= x}))]]] :
                    k \in MapKinds, K \in {L \in SUBSET Keys : Cardinality(L) = Len(f)}} :
           f \in UNION {ForestsWith(n, j - 1) : n \in 0..MaxLen}}
\* The values with at most c containers.
Trees(c) == UNION {TreesWith(j) : j \in 0..c}

\* The order in which _encode_value visits the children of v: a tuple or
\* list by position, a map by sorted(v.keys()).
Order(v) ==
    IF v.kind \in MapKinds THEN Sorted(DOMAIN v.items)
    ELSE [i \in 1..Len(v.items) |-> i]
\* len(v) for a tuple or FrozenDict, None for a list or dict.
LengthOf(v) ==
    IF v.kind \in FixedKinds THEN Integral(Len(Order(v))) ELSE None

\* The frame of the call of _encode_value that has obtained a context
\* manager for the container v: a is the index of the context manager and of
\* the writer it yields, i the position in the for loop.
Frame(v, a) == [v |-> v, a |-> a, i |-> 1, pc |-> "enter"]
Top == helper.stack[Len(helper.stack)]
Started == last.op # "init"
\* An exception is on its way out through the with-statements.
Unwinding == last.observed # NoError
Done == Started /\ helper.stack = <<>>

\* The next call of _encode_value(wr, v, key=key), if the helper is at one:
\* the call the test makes, or the one made in a for loop.
AtCall ==
    \/ ~Started
    \/ /\ helper.stack # <<>>
       /\ Top.pc = "body"
       /\ ~Unwinding
       /\ Top.i <= Len(Order(Top.v))
CallWr == IF helper.stack = <<>> THEN 0 ELSE Top.a
CallKey == IF helper.stack = <<>> THEN 0 ELSE Order(Top.v)[Top.i]
CallV == IF helper.stack = <<>> THEN helper.value ELSE Top.v.items[CallKey]

\* The stack once the call has returned or raised: the for loop moves on,
\* and a call for a container has its own frame.
Returned(stack) ==
    IF stack = <<>> THEN stack
    ELSE [stack EXCEPT ![Len(stack)].i = @ + 1]
AfterCall ==
    IF last'.raised # NoError THEN helper
    ELSE IF CallV.kind = "scalar"
         THEN [helper EXCEPT !.stack = Returned(@)]
         ELSE [helper EXCEPT !.stack = Append(Returned(@), Frame(CallV, Len(cms')))]

\* wr.write(value=v, **kwargs)
EncodeScalar ==
    /\ AtCall
    /\ CallV.kind = "scalar"
    /\ \/ CallWr = 0 /\ WriterWrite(CallV.v)
       \/ CallWr # 0 /\ ArrayWrite(CallWr, CallV.v)
       \/ CallWr # 0 /\ MapWrite(CallWr, CallKey, CallV.v)
    /\ helper' = AfterCall

\* wr.array(length=len(v), **kwargs) / wr.array(length=None, **kwargs)
EncodeArray ==
    /\ AtCall
    /\ CallV.kind \in ArrayKinds
    /\ \/ CallWr = 0 /\ WriterArray(LengthOf(CallV))
       \/ CallWr # 0 /\ ArrayArray(CallWr, LengthOf(CallV))
       \/ CallWr # 0 /\ MapArray(CallWr, CallKey, LengthOf(CallV))
    /\ helper' = AfterCall

\* wr.map(length=len(v), **kwargs) / wr.map(length=None, **kwargs)
EncodeMap ==
    /\ AtCall
    /\ CallV.kind \in MapKinds
    /\ \/ CallWr = 0 /\ WriterMap(LengthOf(CallV))
       \/ CallWr # 0 /\ ArrayMap(CallWr, LengthOf(CallV))
       \/ CallWr # 0 /\ MapMap(CallWr, CallKey, LengthOf(CallV))
    /\ helper' = AfterCall

\* ``with ... as a:``: __enter__ of the context manager just obtained.
EncodeEnter ==
    /\ helper.stack # <<>>
    /\ Top.pc = "enter"
    /\ Enter(Top.a)
    /\ helper' = [helper EXCEPT !.stack[Len(helper.stack)].pc = "body"]

\* The end of the with-block: the for loop is done, or an exception leaves it.
EncodeExit ==
    /\ helper.stack # <<>>
    /\ Top.pc = "body"
    /\ Unwinding \/ Top.i > Len(Order(Top.v))
    /\ Exit(Top.a, last.observed)
    /\ helper' = [helper EXCEPT !.stack = SubSeq(@, 1, Len(@) - 1)]

\* Room in the sink for every value of at most MaxContainers containers.
EncodeSinkBound == MaxContainers * (2 + 2 * MaxLen)

InitEncode ==
    /\ sink = <<>>
    /\ cms = <<>>
    /\ capacity = <<>>
    /\ commits = <<>>
    /\ okcalls = <<>>
    /\ last = Call("init", 0, NoError)
    /\ sinkBound = EncodeSinkBound
    /\ \E v \in Trees(MaxContainers) : helper = [value |-> v, stack |-> <<>>]

NextEncode ==
    \/ EncodeScalar
    \/ EncodeArray
    \/ EncodeMap
    \/ EncodeEnter
    \/ EncodeExit

SpecEncode == InitEncode /\ [][NextEncode]_vars

\* The disciplined callers: every context manager is entered right after the
\* call that returned it, calls are made on the writer of the innermost open
\* with-block only (the top-level writer when none is open), with-blocks are
\* left innermost first, and nothing raises.  Between top-level items such a
\* caller may use a context manager it still holds in another with-statement.
Innermost ==
    IF \E s \in Scopes : cms[s].st = "Open"
    THEN CHOOSE s \in Scopes :
            /\ cms[s].st = "Open"
            /\ \A t \in Scopes : cms[t].parent = s => cms[t].st # "Open"
    ELSE 0
Usable(w) ==
    /\ \A s \in Scopes : cms[s].st # "Unopened"
    /\ w = Innermost
NoRaise == last'.observed = NoError

InitDisciplined ==
    /\ sink = <<>>
    /\ cms = <<>>
    /\ capacity = <<>>
    /\ commits = <<>>
    /\ okcalls = <<>>
    /\ last = Call("init", 0, NoError)
    /\ sinkBound = MaxDisciplinedSink
    /\ helper = NoHelper

NextDisciplined ==
    \/ \E v \in Values : Usable(0) /\ Direct(WriterWrite(v)) /\ NoRaise
    \/ \E l \in Lengths : Usable(0) /\ Direct(WriterArray(l)) /\ NoRaise
    \/ \E l \in Lengths : Usable(0) /\ Direct(WriterMap(l)) /\ NoRaise
    \/ \E w \in Scopes, v \in Values :
          Usable(w) /\ Direct(ArrayWrite(w, v)) /\ NoRaise
    \/ \E w \in Scopes, l \in Lengths :
          Usable(w) /\ Direct(ArrayArray(w, l)) /\ NoRaise
    \/ \E w \in Scopes, l \in Lengths :
          Usable(w) /\ Direct(ArrayMap(w, l)) /\ NoRaise
    \/ \E w \in Scopes, k \in Keys, v \in Values :
          Usable(w) /\ Direct(MapWrite(w, k, v)) /\ NoRaise
    \/ \E w \in Scopes, k \in Keys, l \in Lengths :
          Usable(w) /\ Direct(MapArray(w, k, l)) /\ NoRaise
    \/ \E w \in Scopes, k \in Keys, l \in Lengths :
          Usable(w) /\ Direct(MapMap(w, k, l)) /\ NoRaise
    \/ \E s \in Scopes :
          /\ cms[s].st = "Unopened" \/ \A t \in Scopes : cms[t].st = "Closed"
          /\ Direct(Enter(s))
          /\ NoRaise
    \/ \E s \in Scopes : Usable(s) /\ Direct(Exit(s, NoError)) /\ NoRaise

SpecDisciplined == InitDisciplined /\ [][NextDisciplined]_vars

(* ------------------------- shared vocabulary -------------------------- *)
CallOps == {"write", "array", "map"}
NestOps == {"array", "map"}
Definite(s) == cms[s].length.kind = "Integral"
Indefinite(s) == cms[s].length.kind = "None"
IsExceeded(e) == e \in {ArrayExceeded, MapExceeded}
InvalidLengths == {l \in Lengths : ContextManagerInit(l) # NoError}
\* The initial byte CBOR gives the container of context manager s: the major
\* type in the high three bits, the count or 31 (indefinite) in the low five.
Header(s) ==
    IF Indefinite(s) THEN cms[s].major_tag + 31
    ELSE cms[s].major_tag + cms[s].length.n
\* How often a byte is in the sink.
Occurrences(b) == Cardinality({i \in 1..Len(sink) : sink[i] = b})

(* ------------------------------- C1 ----------------------------------- *)
\* C1: a write, array or map call on a definite-length writer whose capacity
\* is 0 raises the capacity-exceeded CBORWriterError and leaves the sink and
\* the capacity (still 0) as they were; on a writer of length n a call made
\* after fewer than n commits passes the commit step and commits one more,
\* and a call made after n commits fails.
C1_OverCommit ==
    [][\A w \in Scopes :
         (last'.op \in CallOps /\ last'.w = w /\ Definite(w)) =>
            /\ capacity[w] = Integral(0) =>
                  /\ IsExceeded(last'.raised)
                  /\ sink' = sink
                  /\ capacity'[w] = Integral(0)
            /\ commits[w] < cms[w].length.n =>
                  /\ ~IsExceeded(last'.raised)
                  /\ commits'[w] = commits[w] + 1
            /\ commits[w] = cms[w].length.n => IsExceeded(last'.raised)]_vars

\* C1 witness: the call after the n-th commit (n >= 1) has just failed.
C1_Witness ==
    /\ last.op \in CallOps
    /\ last.w \in Scopes
    /\ Definite(last.w)
    /\ cms[last.w].length.n >= 1
    /\ commits[last.w] = cms[last.w].length.n
    /\ IsExceeded(last.raised)

(* ------------------------------- C2 ----------------------------------- *)
\* C2: __exit__ of a definite-length scope of length n returns normally
\* exactly when the writer's capacity is 0, which is exactly when n commits
\* were made; with capacity above 0 it raises the insufficient-elements
\* CBORWriterError; either way it appends nothing to the sink.
C2_DefiniteExit ==
    [][\A s \in Scopes :
         (last'.op = "exit" /\ last'.w = s /\ Definite(s)) =>
            /\ (last'.raised = NoError) <=> (capacity[s] = Integral(0))
            /\ (capacity[s] = Integral(0)) <=> (commits[s] = cms[s].length.n)
            /\ capacity[s].n > 0 => last'.raised = Insufficient
            /\ sink' = sink]_vars

\* C2 witness: a definite scope was left one element short, after a commit.
C2_Witness ==
    /\ last.op = "exit"
    /\ last.w \in Scopes
    /\ Definite(last.w)
    /\ commits[last.w] >= 1
    /\ capacity[last.w] = Integral(1)
    /\ last.raised = Insufficient

(* ------------------------------- C3 ----------------------------------- *)
\* Any array()/map() call on writer w (0: the top-level writer) with the
\* length argument l.
NestedCall(w, l) ==
    \/ w = 0 /\ (WriterArray(l) \/ WriterMap(l))
    \/ w # 0 /\ (ArrayArray(w, l) \/ ArrayMap(w, l))
    \/ w # 0 /\ \E k \in Keys : MapArray(w, k, l) \/ MapMap(w, k, l)

\* C3: on every kind of writer, array()/map() with a negative or
\* non-integral length raises the length ValueError and the sink holds the
\* same bytes after the call as before it.  (Stated for the writers that can
\* still take a commit: at capacity 0 the capacity check of 4.3 comes first.)
C3_LengthCheckedFirst ==
    [][\A w \in {0} \cup Scopes : \A l \in InvalidLengths :
         (NestedCall(w, l) /\ (w # 0 => capacity[w] # Integral(0))) =>
            last'.raised = LengthError /\ sink' = sink]_vars

(* ------------------------------- C4 ----------------------------------- *)
\* C4: once a scope has exited, every write, array or map call on the
\* writer it yielded raises the writer-is-closed error and appends nothing
\* to the sink.
C4_ClosedIsTerminal ==
    [][\A w \in Scopes :
         (cms[w].st = "Closed" /\ last'.op \in CallOps /\ last'.w = w) =>
            last'.raised = WriterClosed /\ sink' = sink]_vars

(* ------------------------------- C5 ----------------------------------- *)
\* C5, as claimed: whenever array()/map() on a bounded writer has committed
\* a unit and returned the context manager s, the header of s is in the sink.
C5_HeaderWrittenByCall ==
    \A s \in Scopes :
        (cms[s].parent # 0 /\ Definite(cms[s].parent)) =>
            Occurrences(Header(s)) >= 1

\* C5, amended: the header is written by __enter__, not by the call: a
\* successful array()/map() call on a bounded parent commits the unit and
\* returns an unopened context manager without appending a header (a map
\* writer appends the key only); every __enter__ appends exactly the header
\* of its context manager, each time it is called; and no other step
\* appends a header byte.
C5_HeaderWrittenByEnter ==
    [][/\ \A w \in Scopes :
             (Definite(w) /\ last'.op \in NestOps /\ last'.w = w
                 /\ last'.raised = NoError) =>
                /\ commits'[w] = commits[w] + 1
                /\ Len(cms') = Len(cms) + 1
                /\ cms'[Len(cms')].st = "Unopened"
                /\ sink' = sink \/ \E k \in Keys : sink' = sink \o <<k>>
       /\ \A s \in Scopes :
             (last'.op = "enter" /\ last'.w = s) => sink' = sink \o <<Header(s)>>
       /\ last'.op # "enter" =>
             \A i \in (Len(sink) + 1)..Len(sink') : sink'[i] < 128 \/ sink'[i] = 255]_vars

\* C5 witness: a nested scope of a bounded parent is open, its unit committed.
C5_Witness ==
    \E s \in Scopes :
        /\ cms[s].st = "Open"
        /\ cms[s].parent # 0
        /\ Definite(cms[s].parent)
        /\ commits[cms[s].parent] >= 1
        /\ Definite(s)

(* ------------------------------- C6 ----------------------------------- *)
\* C6: __exit__ of an indefinite-length scope appends exactly one break byte
\* and raises nothing, whether the body completed or failed and whatever
\* number of calls was made on the writer; a body failure leaves the
\* with-statement unchanged.
C6_IndefiniteExit ==
    [][\A s \in Scopes :
         (last'.op = "exit" /\ last'.w = s /\ Indefinite(s)) =>
            /\ sink' = sink \o EncodeBreak
            /\ last'.raised = NoError
            /\ last'.observed = last'.body]_vars

\* C6 witness: an indefinite scope whose body made a call and then failed
\* has been left.
C6_Witness ==
    /\ last.op = "exit"
    /\ last.w \in Scopes
    /\ Indefinite(last.w)
    /\ okcalls[last.w] >= 1
    /\ last.body = BodyError
    /\ sink[Len(sink)] = 255

(* ------------------------------- C7 ----------------------------------- *)
\* C7: when the body of a with-block fails, the exception that leaves the
\* with-statement is the body's own, whatever __exit__ finds: it is never
\* replaced by the insufficient-elements error.
C7_BodyFailureKept ==
    (last.op = "exit" /\ last.body # NoError) => last.observed = last.body

(* ------------------------------- C8 ----------------------------------- *)
\* C8: for every definite-length writer of length n, capacity is an integer
\* with 0 <= capacity <= n and capacity = n - (number of write/array/map
\* calls on the writer that succeeded).
C8_CapacityCountsCalls ==
    \A w \in Scopes :
        Definite(w) =>
            /\ capacity[w].kind = "Integral"
            /\ 0 <= capacity[w].n
            /\ capacity[w].n <= cms[w].length.n
            /\ capacity[w].n = cms[w].length.n - okcalls[w]

(* ------------------------------- C9 ----------------------------------- *)
\* C9: a successful array()/map() call on a bounded writer w takes exactly
\* one unit of w's capacity, whatever the nested length, and returns a
\* context manager that has not written its header yet (on an array writer
\* the sink is untouched by the call); afterwards no __enter__ or __exit__
\* of the nested scope and no call on the nested writer changes w's capacity.
C9_NestedTakesOneUnit ==
    [][\A w \in Scopes :
         Definite(w) =>
            /\ (last'.op \in NestOps /\ last'.w = w /\ last'.raised = NoError) =>
                  /\ capacity'[w] = Integral(capacity[w].n - 1)
                  /\ Len(cms') = Len(cms) + 1
                  /\ cms'[Len(cms')].parent = w
                  /\ cms'[Len(cms')].st = "Unopened"
                  /\ cms[w].major_tag = ARRAY => sink' = sink
            /\ \A s \in Scopes :
                  (cms[s].parent = w /\ last'.w = s) =>
                      capacity'[w] = capacity[w]]_vars

\* C9 witness: a nested container of length 2 sits in a bounded parent that
\* has lost one unit, and a call on the nested writer has succeeded.
C9_Witness ==
    \E s \in Scopes :
        /\ cms[s].parent # 0
        /\ Definite(cms[s].parent)
        /\ cms[s].length = Integral(2)
        /\ capacity[cms[s].parent] = Integral(cms[cms[s].parent].length.n - 1)
        /\ last.op \in CallOps
        /\ last.w = s
        /\ last.raised = NoError

(* ------------------------------- C10 ---------------------------------- *)
\* What every call on a map writer does to the sink: write(key, value)
\* appends encode(key) then encode(value) behind what is already there, and
\* array(key, length)/map(key, length) take the pair's unit and append
\* encode(key).
MapCallsAppend ==
    \A w \in Scopes :
      (last'.w = w /\ last'.op \in CallOps /\ last'.raised = NoError) =>
      \A k \in Keys :
        /\ \A v \in Values :
              (MapWrite(w, k, v) /\ last'.raised = NoError) =>
                  sink' = sink \o Encode(k) \o Encode(v)
        /\ \A l \in Lengths :
              ((MapArray(w, k, l) \/ MapMap(w, k, l)) /\ last'.raised = NoError) =>
                  /\ sink' = sink \o Encode(k)
                  /\ Definite(w) => capacity'[w] = Integral(capacity[w].n - 1)

\* The last call was a successful array(key, length)/map(key, length) on a
\* map writer; the context manager it returned is the newest one.
MapNestedReturned ==
    /\ last.op \in NestOps
    /\ last.w \in Scopes
    /\ cms[last.w].major_tag = MAP
    /\ last.raised = NoError

\* C10, as claimed: pairs reach the sink in the order submitted, and after
\* array(key, length)/map(key, length) the nested container's header is the
\* next thing appended to the sink.
C10_HeaderNextAfterKey ==
    [][/\ MapCallsAppend
       /\ (MapNestedReturned /\ sink' # sink) =>
              sink' = sink \o <<Header(Len(cms))>>]_vars

\* C10, amended: pairs reach the sink in the order submitted; array(key,
\* length)/map(key, length) append the key and nothing else, and the nested
\* header is appended by __enter__ of the returned context manager, so it
\* follows the key directly when that __enter__ is the next call made.
C10_MapEmissionOrder ==
    [][/\ MapCallsAppend
       /\ \A s \in Scopes :
             (last'.op = "enter" /\ last'.w = s) =>
                 sink' = sink \o <<Header(s)>>
       /\ (MapNestedReturned /\ last'.op = "enter" /\ last'.w = Len(cms)) =>
                 /\ sink[Len(sink)] \in Keys
                 /\ sink' = sink \o <<Header(Len(cms))>>]_vars

\* C10 witness: two pairs written with descending keys, then a nested array
\* opened under an earlier key: the sink holds them as submitted.
C10_Witness ==
    /\ Len(sink) = 5
    /\ sink[1] = 191
    /\ <<sink[2], sink[3], sink[4]>> = <<2, 3, 1>>
    /\ sink[5] \in {128, 129, 130, 159}
    /\ last.op = "enter"

(* ------------------------------- C12 ---------------------------------- *)
\* C12: a writer created with no length has no capacity counter: its
\* capacity is None before and after every step, whatever number of calls
\* was made on it, and no write, array or map call on it raises the
\* capacity-exceeded error.
C12_IndefiniteUnbounded ==
    [][\A w \in Scopes :
         Indefinite(w) =>
            /\ capacity[w] = None
            /\ capacity'[w] = None
            /\ commits'[w] = 0
            /\ (last'.op \in CallOps /\ last'.w = w) => ~IsExceeded(last'.raised)]_vars

\* C12 witness: two calls have returned on an indefinite-length writer and
\* its capacity is None.
C12_Witness ==
    /\ last.op \in CallOps
    /\ last.w \in Scopes
    /\ Indefinite(last.w)
    /\ okcalls[last.w] >= 2
    /\ last.raised = NoError
    /\ capacity[last.w] = None

(* ------------------------------- C13 ---------------------------------- *)
\* C13: the top-level CBORWriter keeps no capacity: no call on it raises a
\* capacity error; write(v) appends encode(v), one item, and touches no
\* counter; array()/map() append nothing themselves and change no existing
\* counter, and the scope they return appends its header on every entry
\* and, on every exit, the break byte if it is indefinite and nothing
\* otherwise.
C13_TopLevelNoBookkeeping ==
    [][/\ (last'.w = 0 /\ last'.op \in CallOps) =>
              /\ ~IsExceeded(last'.raised)
              /\ \A w \in Scopes : capacity'[w] = capacity[w] /\ commits'[w] = commits[w]
       /\ (last'.w = 0 /\ last'.op = "write") =>
              /\ last'.raised = NoError
              /\ \E v \in Values : sink' = sink \o <<v>>
              /\ cms' = cms
       /\ (last'.w = 0 /\ last'.op \in NestOps) =>
              /\ sink' = sink
              /\ last'.raised \in {NoError, LengthError}
       /\ \A s \in Scopes :
              (cms[s].parent = 0 /\ last'.w = s) =>
                  /\ last'.op = "enter" =>
                         sink' = sink \o <<Header(s)>>
                  /\ last'.op = "exit" =>
                         sink' = IF Indefinite(s) THEN sink \o <<255>> ELSE sink]_vars

\* C13 witness: a scalar was written at top level after a top-level scope
\* was closed and another top-level item was written.
C13_Witness ==
    /\ last.op = "write"
    /\ last.w = 0
    /\ Len(sink) = 3
    /\ \E s \in Scopes : cms[s].parent = 0 /\ cms[s].st = "Closed"

(* ------------------------------- C15 ---------------------------------- *)
\* C15: on a bounded array or map writer the commit comes before the length
\* is validated: array()/map() with an invalid length at capacity c > 0
\* leaves capacity c - 1, returns no context manager and raises the length
\* ValueError; at capacity 0 it raises the capacity-exceeded error and
\* capacity stays 0.  A length ValueError on a bounded writer is always
\* paid for with one unit.
C15_CommitBeforeValidation ==
    [][\A w \in Scopes :
         Definite(w) =>
            /\ \A l \in InvalidLengths :
                  (last'.op \in NestOps /\ last'.w = w /\ NestedCall(w, l)) =>
                     /\ capacity[w].n > 0 =>
                           /\ capacity'[w] = Integral(capacity[w].n - 1)
                           /\ last'.raised = LengthError
                           /\ cms' = cms
                     /\ capacity[w].n = 0 =>
                           /\ IsExceeded(last'.raised)
                           /\ capacity'[w] = Integral(0)
            /\ (last'.op \in NestOps /\ last'.w = w /\ last'.raised = LengthError) =>
                  /\ capacity[w].n > 0
                  /\ capacity'[w].n = capacity[w].n - 1]_vars

\* C15 witness: the only call made on a bounded writer of length 2 was an
\* array()/map() with an invalid length; it raised the ValueError and the
\* capacity is 1.
C15_Witness ==
    /\ last.op \in NestOps
    /\ last.w \in Scopes
    /\ cms[last.w].length = Integral(2)
    /\ last.raised = LengthError
    /\ okcalls[last.w] = 0
    /\ commits[last.w] = 1
    /\ capacity[last.w] = Integral(1)

(* ------------------------------- C16 ---------------------------------- *)
\* C16: a writer's capacity changes only in a step that is a successful
\* write, array or map call on that same writer: no call on another writer,
\* no __enter__, no __exit__ and no failed call changes it.
C16_WriterIsolation ==
    [][\A w \in Scopes :
         capacity'[w] # capacity[w] =>
            /\ last'.w = w
            /\ last'.op \in CallOps
            /\ last'.raised = NoError]_vars

(* ------------------------------- C14 ---------------------------------- *)
\* The wire format: a complete item starting at position i of seq is a
\* scalar byte, a definite array header(n) followed by n items, a definite
\* map header(n) followed by n key/item pairs, or an indefinite start marker
\* followed by items (arrays) or pairs (maps) and closed by one break byte.
\* ItemEnd is the position after the item, 0 if there is no complete item.
RECURSIVE ItemEnd(_, _), ItemsEnd(_, _, _), UntilBreak(_, _, _), ItemsOnly(_, _)
ItemsEnd(seq, i, n) ==
    IF n = 0 THEN i
    ELSE LET e == ItemEnd(seq, i) IN
         IF e = 0 THEN 0 ELSE ItemsEnd(seq, e, n - 1)
UntilBreak(seq, i, group) ==
    IF i > Len(seq) THEN 0
    ELSE IF seq[i] = 255 THEN i + 1
    ELSE LET e == ItemsEnd(seq, i, group) IN
         IF e = 0 THEN 0 ELSE UntilBreak(seq, e, group)
ItemEnd(seq, i) ==
    IF i > Len(seq) THEN 0
    ELSE LET b == seq[i] IN
         CASE b < 128 -> i + 1
           [] b >= 128 /\ b < 152 -> ItemsEnd(seq, i + 1, b - 128)
           [] b = 159 -> UntilBreak(seq, i + 1, 1)
           [] b >= 160 /\ b < 184 -> ItemsEnd(seq, i + 1, 2 * (b - 160))
           [] b = 191 -> UntilBreak(seq, i + 1, 2)
           [] OTHER -> 0
ItemsOnly(seq, i) ==
    IF i = Len(seq) + 1 THEN TRUE
    ELSE LET e == ItemEnd(seq, i) IN
         IF e = 0 THEN FALSE ELSE ItemsOnly(seq, e)
\* seq is a sequence of complete top-level items.
WellFormed(seq) == ItemsOnly(seq, 1)

\* C14: under disciplined use, whenever no scope is open or waiting to be
\* entered (the outermost scope has exited), the sink is well-formed: every
\* definite array header(n) is followed by exactly n complete items, every
\* definite map header(n) by exactly n key/item pairs, and every indefinite
\* start marker is closed by one break byte at its own nesting level.
C14_WellFormedOutput ==
    (\A s \in Scopes : cms[s].st = "Closed") => WellFormed(sink)

(* ------------------------------- C11 ---------------------------------- *)
\* The reference serialization of a value: header(n) or the indefinite
\* start marker, the children in order (each key before its value), and the
\* break byte for indefinite containers only.
RECURSIVE RefEncode(_), RefChildren(_, _)
RefChildren(v, i) ==
    IF i > Len(Order(v)) THEN <<>>
    ELSE (IF v.kind \in MapKinds THEN <<Order(v)[i]>> ELSE <<>>)
         \o RefEncode(v.items[Order(v)[i]])
         \o RefChildren(v, i + 1)
RefEncode(v) ==
    CASE v.kind = "scalar" -> <<v.v>>
      [] v.kind = "tuple" -> <<128 + Len(Order(v))>> \o RefChildren(v, 1)
      [] v.kind = "list" -> <<159>> \o RefChildren(v, 1) \o <<255>>
      [] v.kind = "FrozenDict" -> <<160 + Len(Order(v))>> \o RefChildren(v, 1)
      [] v.kind = "dict" -> <<191>> \o RefChildren(v, 1) \o <<255>>

\* C11: a run of _encode_value on a value of at most MaxContainers
\* containers raises nothing; at every moment the sink is a prefix of the
\* reference serialization of the value, and when the run is over it is the
\* whole of it; every definite-length scope that has closed has capacity 0.
C11_StreamEqualsReference ==
    /\ last.raised = NoError
    /\ last.observed = NoError
    /\ Len(sink) <= Len(RefEncode(helper.value))
    /\ sink = SubSeq(RefEncode(helper.value), 1, Len(sink))
    /\ Done => sink = RefEncode(helper.value)
    /\ \A s \in Scopes :
          (cms[s].st = "Closed" /\ Definite(s)) => capacity[s] = Integral(0)

\* C11 witness: the run for a tuple holding two tuples of two different
\* scalars is over, as for ((2, 3), (4, 5)): 82 82 xx yy 82 xx yy.
C11_Witness ==
    /\ Done
    /\ helper.value.kind = "tuple"
    /\ Len(cms) = 3
    /\ \A s \in Scopes : cms[s].major_tag = ARRAY /\ cms[s].st = "Closed"
    /\ \A s \in Scopes : cms[s].length = Integral(2)
    /\ cms[2].parent = 1
    /\ cms[3].parent = 1
    /\ Len(sink) = 7
    /\ sink[3] # sink[4]

====
